---- MODULE Spec2Model ----
(***************************************************************************)
(* The space-station text adventure: the world data of                     *)
(* game_logic/world.py and the GameEngine state machine of                 *)
(* game_logic/engine.py.                                                   *)
(*                                                                         *)
(* A Python string that the engine parses (a command, an argument) is a    *)
(* sequence of tokens: a token is a word or one run of whitespace (WS).    *)
(* Str renders a token sequence as the text it stands for.  Narratives are *)
(* the texts the code returns, with the em dash of the source written "-"  *)
(* (module text is ASCII).                                                 *)
(***************************************************************************)
EXTENDS Integers, Sequences, FiniteSets, TLC

VARIABLES current_room, inventory, flags, taken_items, moves,
          command, result, recognized

vars == <<current_room, inventory, flags, taken_items, moves,
          command, result, recognized>>

\* The turn controller (eval/harness.py): the locals of run_bash_eval and
\* run_mcp_eval, the position in the loop (pc), the break that ended it
\* (stop), the last provider response, and the .win file of the station.
\* Of the conversation the messages the last loop iteration appended are
\* held (new_messages); of tool_calls_log its length (n_logged) and the
\* entries of the last iteration.
VARIABLES mode, token_limit, pc, stop,
          total_prompt_tokens, total_completion_tokens, turns,
          commands, tool_calls_log, n_logged, won, gave_up, empty_streak,
          response, new_messages, provider_calls, executed,
          win_file, record

hvars == <<mode, token_limit, pc, stop,
           total_prompt_tokens, total_completion_tokens, turns,
           commands, tool_calls_log, n_logged, won, gave_up, empty_streak,
           response, new_messages, provider_calls, executed,
           win_file, record>>

evars == <<vars, hvars>>

\* The tool server (mcp_adventure/server.py): the session whose request was
\* handled last (0 before the first request) and the sessions that have made
\* a request.  The engine variables above hold the module-level engine.
VARIABLES session, connected

svars == <<session, connected>>

allvars == <<vars, hvars, svars>>

\* Commands are accepted while the move counter is below this bound.
MaxMoves == 9

(***************************************************************************)
(* world.py                                                                *)
(***************************************************************************)
ROOMS ==
  [ airlock |->
      [ name |-> "Airlock",
        description |->
          "You are in the station's airlock. Emergency lights pulse red. "
          \o "The outer hatch is sealed shut - vacuum on the other side. "
          \o "A door leads into the corridor to the north.",
        exits |-> << <<"north", "corridor">> >> ],
    corridor |->
      [ name |-> "Corridor",
        description |->
          "A long metal corridor stretches before you. Sparks drip from "
          \o "damaged ceiling panels. Doors lead to the bridge (north), "
          \o "engine room (east), and med bay (west). The airlock is to the south.",
        exits |-> << <<"south", "airlock">>, <<"north", "bridge">>,
                     <<"east", "engine_room">>, <<"west", "med_bay">> >> ],
    bridge |->
      [ name |-> "Bridge",
        description |->
          "The bridge is silent. A large console dominates the center of the room. "
          \o "Its screen is dark - it looks like it needs a keycard to activate. "
          \o "The corridor is to the south.",
        exits |-> << <<"south", "corridor">> >> ],
    engine_room |->
      [ name |-> "Engine Room",
        description_dark |->
          "The engine room is pitch black. You can barely see anything. "
          \o "You hear the hum of dormant machinery. "
          \o "Near the entrance, you feel something on a shelf - it might be a flashlight. "
          \o "The corridor is back to the west.",
        description_lit |->
          "The flashlight reveals a massive engine core surrounded by catwalks. "
          \o "Under a pile of debris near the wall, you spot a glinting keycard. "
          \o "The corridor is back to the west.",
        description_looted |->
          "The engine room is lit by your flashlight. The debris pile "
          \o "has been disturbed where you found the keycard. "
          \o "The corridor is back to the west.",
        exits |-> << <<"west", "corridor">> >> ],
    med_bay |->
      [ name |-> "Med Bay",
        description |->
          "A small medical bay with overturned supply carts. "
          \o "A crew log sits on the counter - it might have useful information. "
          \o "The corridor is to the east.",
        description_looted |->
          "A small medical bay with overturned supply carts. "
          \o "The counter is bare - you already took the crew log. "
          \o "The corridor is to the east.",
        exits |-> << <<"east", "corridor">> >> ] ]

ITEMS ==
  [ flashlight |->
      [ name |-> "flashlight",
        description |-> "A heavy-duty flashlight. Still has battery.",
        location |-> "engine_room" ],
    keycard |->
      [ name |-> "keycard",
        description |-> "A security keycard with the captain's photo on it.",
        location |-> "engine_room",
        take_condition |-> "engine_room_lit",
        take_fail |-> "It's too dark to find anything in here." ],
    crew_log |->
      [ name |-> "crew log",
        description |-> "A datapad with the last crew log entry.",
        location |-> "med_bay",
        read_text |->
          "CREW LOG - Day 247: Power failure hit deck 3. Captain stashed "
          \o "the emergency keycard in the engine room before the lights went out. "
          \o "Grab a flashlight if you head in there - it's pitch black." ] ]

\* ITEMS.items() iterates in insertion order.
ItemOrder == <<"flashlight", "keycard", "crew_log">>

\* sorted() of the item ids.
SortedItemIds == <<"crew_log", "flashlight", "keycard">>

START_ROOM == "airlock"

INITIAL_FLAGS == [engine_room_lit |-> FALSE, console_activated |-> FALSE]

(***************************************************************************)
(* Text helpers: the str methods the engine calls.                         *)
(***************************************************************************)
WS == " "

NL == "\n"

IsSpace(tok) == tok \in {WS, NL}

\* str.lower(), on the words of the command vocabulary.
LowerTok(tok) ==
  CASE tok = "USE"     -> "use"
    [] tok = "Take"    -> "take"
    [] tok = "Keycard" -> "keycard"
    [] OTHER           -> tok

lower(s) == [i \in 1..Len(s) |-> LowerTok(s[i])]

RECURSIVE lstrip(_)
lstrip(s) == IF s # <<>> /\ IsSpace(Head(s)) THEN lstrip(Tail(s)) ELSE s

RECURSIVE rstrip(_)
rstrip(s) ==
  IF s # <<>> /\ IsSpace(s[Len(s)]) THEN rstrip(SubSeq(s, 1, Len(s) - 1)) ELSE s

strip(s) == rstrip(lstrip(s))

\* str.replace("_", " "): the one word of the vocabulary with an underscore
\* becomes two words and a space.
ReplaceTok(tok) == IF tok = "crew_log" THEN <<"crew", WS, "log">> ELSE <<tok>>

RECURSIVE replace_underscore(_)
replace_underscore(s) ==
  IF s = <<>> THEN <<>> ELSE ReplaceTok(Head(s)) \o replace_underscore(Tail(s))

\* The text a token sequence stands for.
RECURSIVE Str(_)
Str(s) == IF s = <<>> THEN "" ELSE Head(s) \o Str(Tail(s))

\* sep.join(xs)
RECURSIVE join(_, _)
join(sep, xs) ==
  IF xs = <<>> THEN ""
  ELSE IF Len(xs) = 1 THEN xs[1]
  ELSE xs[1] \o sep \o join(sep, Tail(xs))

\* command.split(maxsplit=1) of a stripped, non-empty command.
split_verb(c) == c[1]
split_arg(c) == lstrip(Tail(c))

(***************************************************************************)
(* engine.py: GameEngine.  `self` is the record of the engine's fields;    *)
(* a handler returns the engine after the call and the narrative.          *)
(***************************************************************************)
GameEngine ==
  [ current_room |-> START_ROOM,
    inventory    |-> {},
    flags        |-> INITIAL_FLAGS,
    taken_items  |-> {},
    moves        |-> 0 ]

Ret(self, text) == [self |-> self, text |-> text]

is_won(self) ==
  IF "console_activated" \in DOMAIN self.flags
  THEN self.flags["console_activated"]
  ELSE FALSE

get_state(self) ==
  [ current_room |-> self.current_room,
    inventory    |-> SelectSeq(SortedItemIds, LAMBDA i : i \in self.inventory),
    flags        |-> self.flags,
    moves        |-> self.moves,
    won          |-> is_won(self) ]

_look(self, _arg) ==
  LET room == ROOMS[self.current_room] IN
  IF self.current_room = "engine_room"
  THEN IF ~self.flags["engine_room_lit"]
       THEN Ret(self, room.description_dark)
       ELSE IF "keycard" \notin self.taken_items
       THEN Ret(self, room.description_lit)
       ELSE Ret(self, room.description_looted)
  ELSE IF self.current_room = "med_bay" /\ "crew_log" \in self.taken_items
  THEN Ret(self, room.description_looted)
  ELSE Ret(self, room.description)

\* _enter_room without the looted variant of the med bay.
_enter_room_no_looted(self) ==
  LET room   == ROOMS[self.current_room]
      prefix == "You enter the " \o room.name \o ".\n\n"
  IN
  IF self.current_room = "engine_room" /\ ~self.flags["engine_room_lit"]
  THEN Ret(self, prefix \o room.description_dark)
  ELSE IF self.current_room = "engine_room"
  THEN IF "keycard" \notin self.taken_items
       THEN Ret(self, prefix \o room.description_lit)
       ELSE Ret(self, prefix \o room.description_looted)
  ELSE Ret(self, prefix \o room.description)

_enter_room(self) ==
  LET room   == ROOMS[self.current_room]
      prefix == "You enter the " \o room.name \o ".\n\n"
  IN
  IF self.current_room = "engine_room" /\ ~self.flags["engine_room_lit"]
  THEN Ret(self, prefix \o room.description_dark)
  ELSE IF self.current_room = "engine_room"
  THEN IF "keycard" \notin self.taken_items
       THEN Ret(self, prefix \o room.description_lit)
       ELSE Ret(self, prefix \o room.description_looted)
  ELSE IF self.current_room = "med_bay" /\ "crew_log" \in self.taken_items
  THEN Ret(self, prefix \o room.description_looted)
  ELSE Ret(self, prefix \o room.description)

\* exits.keys(), in insertion order
ExitKeys(exits) == [i \in 1..Len(exits) |-> exits[i][1]]

\* exits[direction], for a direction that is a key
ExitTarget(exits, d) ==
  exits[CHOOSE i \in 1..Len(exits) : exits[i][1] = d][2]

\* _go with the membership test replaced by a lookup that defaults to the
\* start room: exits.get(direction, START_ROOM).
_go_defaults_to_start(self, direction) ==
  IF direction = <<>>
  THEN Ret(self, "Go where? Specify a direction (north, south, east, west).")
  ELSE
    LET exits == ROOMS[self.current_room].exits
        d     == Str(direction)
    IN
    _enter_room([self EXCEPT !.current_room =
                   IF \E i \in 1..Len(exits) : exits[i][1] = d
                   THEN ExitTarget(exits, d) ELSE START_ROOM])

\* _go with the bridge's door shut behind the player: on the bridge every
\* direction is refused.
_go_no_way_back(self, direction) ==
  IF direction = <<>>
  THEN Ret(self, "Go where? Specify a direction (north, south, east, west).")
  ELSE
    LET room  == ROOMS[self.current_room]
        exits == room.exits
        d     == Str(direction)
    IN
    IF self.current_room = "bridge"
       \/ ~(\E i \in 1..Len(exits) : exits[i][1] = d)
    THEN Ret(self, "You can't go " \o d \o ". Exits: "
                     \o join(", ", ExitKeys(exits)) \o ".")
    ELSE _enter_room([self EXCEPT !.current_room = ExitTarget(exits, d)])

_go(self, direction) ==
  IF direction = <<>>
  THEN Ret(self, "Go where? Specify a direction (north, south, east, west).")
  ELSE
    LET room  == ROOMS[self.current_room]
        exits == room.exits
        d     == Str(direction)
    IN
    IF ~(\E i \in 1..Len(exits) : exits[i][1] = d)
    THEN Ret(self, "You can't go " \o d \o ". Exits: "
                     \o join(", ", ExitKeys(exits)) \o ".")
    ELSE _enter_room([self EXCEPT !.current_room = ExitTarget(exits, d)])

\* The for loop of _take from the k-th item on: the first item whose name
\* and location match decides the outcome.
RECURSIVE TakeLoop(_, _, _)
TakeLoop(self, item_name, k) ==
  IF k > Len(ItemOrder)
  THEN Ret(self, "There's no '" \o item_name \o "' here to take.")
  ELSE
    LET item_id == ItemOrder[k]
        item    == ITEMS[item_id]
    IN
    IF item.name = item_name /\ item.location = self.current_room
    THEN IF item_id \in self.taken_items
         THEN Ret(self, "You already took the " \o item_name \o ".")
         ELSE IF /\ "take_condition" \in DOMAIN item
                 /\ ~(IF item.take_condition \in DOMAIN self.flags
                      THEN self.flags[item.take_condition] ELSE FALSE)
         THEN Ret(self, IF "take_fail" \in DOMAIN item
                        THEN item.take_fail
                        ELSE "You can't take that right now.")
         ELSE Ret([self EXCEPT !.inventory   = @ \cup {item_id},
                               !.taken_items = @ \cup {item_id}],
                  "You pick up the " \o item.name \o ".")
    ELSE TakeLoop(self, item_name, k + 1)

\* _take with one of its checks left out: bug "no_taken_check" skips the
\* already-taken test, bug "no_condition" skips the take_condition test.
RECURSIVE TakeLoopWith(_, _, _, _)
TakeLoopWith(bug, self, item_name, k) ==
  IF k > Len(ItemOrder)
  THEN Ret(self, "There's no '" \o item_name \o "' here to take.")
  ELSE
    LET item_id == ItemOrder[k]
        item    == ITEMS[item_id]
    IN
    IF item.name = item_name /\ item.location = self.current_room
    THEN IF bug # "no_taken_check" /\ item_id \in self.taken_items
         THEN Ret(self, "You already took the " \o item_name \o ".")
         ELSE IF /\ bug # "no_condition"
                 /\ "take_condition" \in DOMAIN item
                 /\ ~(IF item.take_condition \in DOMAIN self.flags
                      THEN self.flags[item.take_condition] ELSE FALSE)
         THEN Ret(self, IF "take_fail" \in DOMAIN item
                        THEN item.take_fail
                        ELSE "You can't take that right now.")
         ELSE Ret([self EXCEPT !.inventory   = @ \cup {item_id},
                               !.taken_items = @ \cup {item_id}],
                  "You pick up the " \o item.name \o ".")
    ELSE TakeLoopWith(bug, self, item_name, k + 1)

_take_no_taken_check(self, item_name) ==
  IF item_name = <<>>
  THEN Ret(self, "Take what?")
  ELSE TakeLoopWith("no_taken_check", self,
                    Str(replace_underscore(item_name)), 1)

_take_no_condition(self, item_name) ==
  IF item_name = <<>>
  THEN Ret(self, "Take what?")
  ELSE TakeLoopWith("no_condition", self,
                    Str(replace_underscore(item_name)), 1)

_take(self, item_name) ==
  IF item_name = <<>>
  THEN Ret(self, "Take what?")
  ELSE TakeLoop(self, Str(replace_underscore(item_name)), 1)

\* The lookup loop of _use: the id of the first item with that name, or
\* "None".
RECURSIVE FindItemId(_, _)
FindItemId(item_name, k) ==
  IF k > Len(ItemOrder) THEN "None"
  ELSE IF ITEMS[ItemOrder[k]].name = item_name THEN ItemOrder[k]
  ELSE FindItemId(item_name, k + 1)

\* _use with one fault injected:
\*   "toggle_console"   the console flag is flipped instead of set;
\*   "keycard_anywhere" the room test of the keycard branch is left out;
\*   "flag_not_set"     the flashlight branch does not set engine_room_lit;
\*   "no_crew_log"      the crew log branch is left out;
\*   "flashlight_anywhere" the room test of the flashlight branch is left out;
\*   "consumes_keycard" the console keeps the keycard.
_use_with(bug, self, item_name) ==
  IF item_name = <<>>
  THEN Ret(self, "Use what?")
  ELSE
    LET name    == Str(replace_underscore(item_name))
        item_id == FindItemId(name, 1)
    IN
    IF item_id = "None" \/ item_id \notin self.inventory
    THEN Ret(self, "You don't have a '" \o name \o "'.")
    ELSE IF item_id = "flashlight"
            /\ (bug = "flashlight_anywhere" \/ self.current_room = "engine_room")
    THEN IF self.flags["engine_room_lit"]
         THEN Ret(self, "The flashlight is already on. The room is lit.")
         ELSE Ret([self EXCEPT !.flags["engine_room_lit"] = (bug # "flag_not_set")],
                  "You switch on the flashlight. The beam cuts through the darkness. "
                  \o "You can see the engine core now - and something glinting under "
                  \o "a pile of debris near the wall. It looks like a keycard.")
    ELSE IF item_id = "flashlight"
    THEN Ret(self, "You wave the flashlight around. Nothing interesting here.")
    ELSE IF item_id = "keycard"
            /\ (bug = "keycard_anywhere" \/ self.current_room = "bridge")
    THEN Ret([self EXCEPT !.flags["console_activated"] =
                            IF bug = "toggle_console" THEN ~@ ELSE TRUE,
                          !.inventory =
                            IF bug = "consumes_keycard" THEN @ \ {"keycard"}
                            ELSE @],
             "You slide the keycard into the console. Screens flicker to life. "
             \o "The station's distress beacon activates - a rescue signal pulses "
             \o "out into deep space.\n\n"
             \o "*** YOU WIN ***\n"
             \o "Completed in " \o ToString(self.moves) \o " moves.")
    ELSE IF item_id = "keycard"
    THEN Ret(self, "There's nothing to use the keycard on here.")
    ELSE IF item_id = "crew_log" /\ bug # "no_crew_log"
    THEN Ret(self, "You read the crew log:\n\n" \o ITEMS["crew_log"].read_text)
    ELSE Ret(self, "You can't figure out how to use the " \o name \o " here.")

_use_toggles_console(self, item_name) == _use_with("toggle_console", self, item_name)

_use_keycard_anywhere(self, item_name) == _use_with("keycard_anywhere", self, item_name)

_use_flag_not_set(self, item_name) == _use_with("flag_not_set", self, item_name)

_use_no_crew_log(self, item_name) == _use_with("no_crew_log", self, item_name)

_use_flashlight_anywhere(self, item_name) == _use_with("flashlight_anywhere", self, item_name)

_use_consumes_keycard(self, item_name) == _use_with("consumes_keycard", self, item_name)

_use(self, item_name) ==
  IF item_name = <<>>
  THEN Ret(self, "Use what?")
  ELSE
    LET name    == Str(replace_underscore(item_name))
        item_id == FindItemId(name, 1)
    IN
    IF item_id = "None" \/ item_id \notin self.inventory
    THEN Ret(self, "You don't have a '" \o name \o "'.")
    ELSE IF item_id = "flashlight" /\ self.current_room = "engine_room"
    THEN IF self.flags["engine_room_lit"]
         THEN Ret(self, "The flashlight is already on. The room is lit.")
         ELSE Ret([self EXCEPT !.flags["engine_room_lit"] = TRUE],
                  "You switch on the flashlight. The beam cuts through the darkness. "
                  \o "You can see the engine core now - and something glinting under "
                  \o "a pile of debris near the wall. It looks like a keycard.")
    ELSE IF item_id = "flashlight"
    THEN Ret(self, "You wave the flashlight around. Nothing interesting here.")
    ELSE IF item_id = "keycard" /\ self.current_room = "bridge"
    THEN Ret([self EXCEPT !.flags["console_activated"] = TRUE],
             "You slide the keycard into the console. Screens flicker to life. "
             \o "The station's distress beacon activates - a rescue signal pulses "
             \o "out into deep space.\n\n"
             \o "*** YOU WIN ***\n"
             \o "Completed in " \o ToString(self.moves) \o " moves.")
    ELSE IF item_id = "keycard"
    THEN Ret(self, "There's nothing to use the keycard on here.")
    ELSE IF item_id = "crew_log"
    THEN Ret(self, "You read the crew log:\n\n" \o ITEMS["crew_log"].read_text)
    ELSE Ret(self, "You can't figure out how to use the " \o name \o " here.")

\* _read that uses the crew log up: reading removes it from the inventory.
_read_consumes(self, item_name) ==
  IF item_name = <<>>
  THEN Ret(self, "Read what?")
  ELSE
    LET name == Str(replace_underscore(item_name)) IN
    IF name = "crew log" /\ "crew_log" \in self.inventory
    THEN Ret([self EXCEPT !.inventory = @ \ {"crew_log"}],
             "You read the crew log:\n\n" \o ITEMS["crew_log"].read_text)
    ELSE IF name = "crew log"
    THEN Ret(self, "You don't have the crew log.")
    ELSE Ret(self, "You can't read '" \o name \o "'.")

_read(self, item_name) ==
  IF item_name = <<>>
  THEN Ret(self, "Read what?")
  ELSE
    LET name == Str(replace_underscore(item_name)) IN
    IF name = "crew log" /\ "crew_log" \in self.inventory
    THEN Ret(self, "You read the crew log:\n\n" \o ITEMS["crew_log"].read_text)
    ELSE IF name = "crew log"
    THEN Ret(self, "You don't have the crew log.")
    ELSE Ret(self, "You can't read '" \o name \o "'.")

_inventory(self, _arg) ==
  IF self.inventory = {}
  THEN Ret(self, "You aren't carrying anything.")
  ELSE
    LET ids   == SelectSeq(SortedItemIds, LAMBDA i : i \in self.inventory)
        names == [k \in 1..Len(ids) |-> ITEMS[ids[k]].name]
    IN Ret(self, "You are carrying: " \o join(", ", names) \o ".")

_help(self, _arg) ==
  Ret(self,
      "Commands:\n"
      \o "  look          - Examine your surroundings\n"
      \o "  go <direction> - Move (north, south, east, west)\n"
      \o "  take <item>   - Pick up an item\n"
      \o "  use <item>    - Use an item\n"
      \o "  read <item>   - Read an item\n"
      \o "  inventory     - Check what you're carrying\n"
      \o "  help          - Show this message")

\* The keys of the dispatch table.
dispatch == {"look", "go", "take", "use", "inventory", "help", "read"}

\* dispatch[verb](arg)
handler(verb, self, arg) ==
  CASE verb = "look"      -> _look(self, arg)
    [] verb = "go"        -> _go(self, arg)
    [] verb = "take"      -> _take(self, arg)
    [] verb = "use"       -> _use(self, arg)
    [] verb = "inventory" -> _inventory(self, arg)
    [] verb = "help"      -> _help(self, arg)
    [] verb = "read"      -> _read(self, arg)

\* execute with the move counter advanced before the dispatch lookup, so
\* that unknown verbs count too.
execute_counts_unknown(self, cmd) ==
  LET c == lower(strip(cmd)) IN
  IF c = <<>>
  THEN Ret(self, "Say something. Type 'help' for commands.")
  ELSE
    LET verb == split_verb(c)
        arg  == split_arg(c)
        s1   == [self EXCEPT !.moves = @ + 1]
    IN
    IF verb \notin dispatch
    THEN Ret(s1, "Unknown command: '" \o verb \o "'. Type 'help' for commands.")
    ELSE handler(verb, s1, arg)

\* execute with the move counter advanced after the handler has run, so
\* that the handler sees the count before this command.
execute_counts_after(self, cmd) ==
  LET c == lower(strip(cmd)) IN
  IF c = <<>>
  THEN Ret(self, "Say something. Type 'help' for commands.")
  ELSE
    LET verb == split_verb(c)
        arg  == split_arg(c)
    IN
    IF verb \notin dispatch
    THEN Ret(self, "Unknown command: '" \o verb \o "'. Type 'help' for commands.")
    ELSE LET r == handler(verb, self, arg)
         IN Ret([r.self EXCEPT !.moves = @ + 1], r.text)

execute(self, cmd) ==
  LET c == lower(strip(cmd)) IN
  IF c = <<>>
  THEN Ret(self, "Say something. Type 'help' for commands.")
  ELSE
    LET verb == split_verb(c)
        arg  == split_arg(c)
    IN
    IF verb \notin dispatch
    THEN Ret(self, "Unknown command: '" \o verb \o "'. Type 'help' for commands.")
    ELSE handler(verb, [self EXCEPT !.moves = @ + 1], arg)

(***************************************************************************)
(* The state machine: one engine, driven by commands.                      *)
(***************************************************************************)
\* The engine object the variables hold.
Self ==
  [ current_room |-> current_room,
    inventory    |-> inventory,
    flags        |-> flags,
    taken_items  |-> taken_items,
    moves        |-> moves ]

\* The commands a player may type: a verb, optionally whitespace and an
\* argument, optionally padded with whitespace; and blank lines.
VerbWords == dispatch \cup {"dance", "USE"}

ArgTexts ==
  { <<>>, <<"north">>, <<"south">>, <<"east">>, <<"west">>, <<"up">>,
    <<"flashlight">>, <<"keycard">>, <<"Keycard">>,
    <<"crew", WS, "log">>, <<"crew_log">> }

Commands ==
  { <<>>, <<WS>>, <<WS, "look", WS>>, <<"use", WS, WS, "keycard">>,
    <<"Take", WS, "crew", WS, WS, "log">> }
  \cup { IF a = <<>> THEN <<v>> ELSE <<v, WS>> \o a :
           v \in VerbWords, a \in ArgTexts }

\* The verb and the argument text of a command as the player typed it.
VerbOf(cmd) ==
  LET c == lower(strip(cmd)) IN IF c = <<>> THEN "" ELSE split_verb(c)

\* The argument as _go sees it.
DirectionOf(cmd) ==
  LET c == lower(strip(cmd)) IN
  IF c = <<>> THEN "" ELSE Str(split_arg(c))

\* The argument as _take, _use and _read see it after replace("_", " ").
ItemNameOf(cmd) ==
  LET c == lower(strip(cmd)) IN
  IF c = <<>> THEN "" ELSE Str(replace_underscore(split_arg(c)))

\* No playthrough is running: the engine is driven directly.
HarnessIdle ==
  /\ mode = "none"
  /\ token_limit = 0
  /\ pc = "idle"
  /\ stop = ""
  /\ total_prompt_tokens = 0
  /\ total_completion_tokens = 0
  /\ turns = 0
  /\ commands = <<>>
  /\ tool_calls_log = <<>>
  /\ n_logged = 0
  /\ won = FALSE
  /\ gave_up = FALSE
  /\ empty_streak = 0
  /\ response = [failed |-> FALSE, content |-> <<>>, tool_calls |-> <<>>,
                  usage |-> <<0, 0>>]
  /\ new_messages = <<>>
  /\ provider_calls = 0
  /\ executed = 0
  /\ win_file = FALSE
  /\ record = <<>>
  /\ session = 0
  /\ connected = {}

Init ==
  /\ HarnessIdle
  /\ current_room = GameEngine.current_room
  /\ inventory = GameEngine.inventory
  /\ flags = GameEngine.flags
  /\ taken_items = GameEngine.taken_items
  /\ moves = GameEngine.moves
  /\ command = <<>>
  /\ result = ""
  /\ recognized = 0

Execute(cmd) ==
  /\ moves < MaxMoves
  /\ \E r \in {execute(Self, cmd)} :
       /\ current_room' = r.self.current_room
       /\ inventory' = r.self.inventory
       /\ flags' = r.self.flags
       /\ taken_items' = r.self.taken_items
       /\ moves' = r.self.moves
       /\ result' = r.text
  /\ command' = cmd
  \* history: the number of commands issued so far whose verb is one of
  \* the seven recognized verbs
  /\ recognized' = IF VerbOf(cmd) \in {"look", "go", "take", "use", "read",
                                       "inventory", "help"}
                   THEN recognized + 1 ELSE recognized
  /\ UNCHANGED <<hvars, svars>>

Next == \E cmd \in Commands : Execute(cmd)

Spec == Init /\ [][Next]_vars

TypeOK ==
  /\ current_room \in DOMAIN ROOMS
  /\ inventory \subseteq DOMAIN ITEMS
  /\ taken_items \subseteq DOMAIN ITEMS
  /\ DOMAIN flags = DOMAIN INITIAL_FLAGS
  /\ moves \in 0..MaxMoves
  /\ command \in Commands

(***************************************************************************)
(* Properties.  `command` and `result` are the argument and the return     *)
(* value of the last execute call; in an action formula the primed pair    *)
(* belongs to the call the step makes and the unprimed engine fields are   *)
(* the state the call started from.                                        *)
(***************************************************************************)
Won == is_won(Self)

VictoryText(n) ==
  "You slide the keycard into the console. Screens flicker to life. "
  \o "The station's distress beacon activates - a rescue signal pulses "
  \o "out into deep space.\n\n"
  \o "*** YOU WIN ***\n"
  \o "Completed in " \o ToString(n) \o " moves."

PickUpText(i) == "You pick up the " \o ITEMS[i].name \o "."

AlreadyTookText(i) == "You already took the " \o ITEMS[i].name \o "."

NotHereText(i) == "There's no '" \o ITEMS[i].name \o "' here to take."

ReadText == "You read the crew log:\n\n" \o ITEMS["crew_log"].read_text

\* C1: is_won() is true exactly when flags['console_activated'] is true, and
\* once is_won() is true it is true after every later command.
C1_WonIffFlagAndStaysWon ==
  /\ [](Won <=> ("console_activated" \in DOMAIN flags /\ flags["console_activated"]))
  /\ [][Won => Won']_vars

\* A command (here a `go`) was executed after the game was won.
C1_Witness == Won /\ VerbOf(command) = "go" /\ moves = MaxMoves

\* C2: a step on which is_won() turns from false to true is `use keycard`
\* executed with the keycard in the inventory and the bridge as current room.
C2_OnlyUseKeycardOnBridgeWins ==
  [][ (~Won /\ Won') =>
        /\ VerbOf(command') = "use"
        /\ ItemNameOf(command') = "keycard"
        /\ "keycard" \in inventory
        /\ current_room = "bridge" ]_vars

\* The winning step has just been taken, typed as `USE Keycard`.
C2_Witness == Won /\ command = <<"USE", WS, "Keycard">> /\ moves = 8

\* C3: execute adds exactly 1 to the move counter when the verb is one of
\* look, go, take, use, read, inventory, help, and leaves it unchanged when
\* the verb is unrecognized or the command is blank.
C3_MovesCountRecognizedVerbs ==
  [][ moves' = moves + (IF VerbOf(command') \in
                             {"look", "go", "take", "use", "read",
                              "inventory", "help"}
                        THEN 1 ELSE 0) ]_vars

\* An unrecognized verb was executed after three recognized commands and
\* the counter still reads three.
C3_Witness == VerbOf(command) = "dance" /\ moves = 3 /\ recognized = 3

\* C4: the move count in the victory narrative is the number of recognized
\* commands issued so far, the winning `use` included.
C4_VictoryCountsRecognizedCommands ==
  (/\ Won
   /\ VerbOf(command) = "use"
   /\ ItemNameOf(command) = "keycard"
   /\ current_room = "bridge")
  => result = VictoryText(recognized)

\* A win on the ninth recognized command.
C4_Witness == Won /\ result = VictoryText(9)

\* C5: taken_items only grows, and a `take` picks an item up only when the
\* item was not yet in taken_items (so each item is picked up at most once).
C5_TakenOnceAndForAll ==
  /\ [](taken_items \subseteq DOMAIN ITEMS)
  /\ [][taken_items \subseteq taken_items']_vars
  /\ [][ \A i \in DOMAIN ITEMS :
           (VerbOf(command') = "take" /\ result' = PickUpText(i))
           => (i \notin taken_items /\ i \in taken_items') ]_vars

\* The flashlight was taken earlier and a later `take flashlight` in its
\* home room did not pick it up again.
C5_Witness ==
  /\ VerbOf(command) = "take"
  /\ ItemNameOf(command) = "flashlight"
  /\ current_room = "engine_room"
  /\ "flashlight" \in taken_items
  /\ result # PickUpText("flashlight")
  /\ moves > 4

\* C6 as stated: `take` of an item that is in taken_items leaves the
\* inventory unchanged and returns the "You already took" narrative, in
\* every room.
C6_AlreadyTookEverywhere ==
  [][ \A i \in DOMAIN ITEMS :
        (/\ VerbOf(command') = "take"
         /\ ItemNameOf(command') = ITEMS[i].name
         /\ i \in taken_items)
        => (inventory' = inventory /\ result' = AlreadyTookText(i)) ]_vars

\* C6 amended: `take` of an item that is in taken_items leaves inventory
\* and taken_items unchanged; it returns "You already took the <item>." when
\* the current room is the item's home room and "There's no '<item>' here to
\* take." in every other room.
C6_AlreadyTookAtHome ==
  [][ \A i \in DOMAIN ITEMS :
        (/\ VerbOf(command') = "take"
         /\ ItemNameOf(command') = ITEMS[i].name
         /\ i \in taken_items)
        => /\ inventory' = inventory
           /\ taken_items' = taken_items
           /\ result' = IF ITEMS[i].location = current_room
                        THEN AlreadyTookText(i) ELSE NotHereText(i) ]_vars

\* The crew log was taken again in the med bay.
C6_Witness ==
  /\ result = AlreadyTookText("crew_log")
  /\ inventory = {"crew_log"}

\* C7: `use flashlight`, held, in the engine room sets engine_room_lit when
\* it is false; the flag then stays true and `take keycard` in the engine
\* room picks the keycard up; `use flashlight` there with the flag true
\* returns the "already on" narrative and changes neither room, inventory,
\* taken-items nor flags.
C7_FlashlightLightsOnce ==
  /\ [][ (/\ VerbOf(command') = "use"
          /\ ItemNameOf(command') = "flashlight"
          /\ "flashlight" \in inventory
          /\ current_room = "engine_room")
         => IF flags["engine_room_lit"]
            THEN /\ result' = "The flashlight is already on. The room is lit."
                 /\ UNCHANGED <<current_room, inventory, taken_items, flags>>
            ELSE /\ flags' = [flags EXCEPT !["engine_room_lit"] = TRUE]
                 /\ UNCHANGED <<current_room, inventory, taken_items>> ]_vars
  /\ [][flags["engine_room_lit"] => flags'["engine_room_lit"]]_vars
  /\ [][ (/\ VerbOf(command') = "take"
          /\ ItemNameOf(command') = "keycard"
          /\ current_room = "engine_room"
          /\ flags["engine_room_lit"]
          /\ "keycard" \notin taken_items)
         => /\ result' = PickUpText("keycard")
            /\ "keycard" \in inventory' ]_vars

\* The flashlight was used again after the keycard had been picked up.
C7_Witness ==
  /\ result = "The flashlight is already on. The room is lit."
  /\ "keycard" \in inventory

\* C8: `take <item>` picks an item up exactly when an item with that display
\* name has the current room as home room, is not in taken_items and has no
\* take-condition flag or a true one; the item then joins inventory and
\* taken_items; otherwise neither set changes, and when the matching item's
\* take-condition flag is false the result is the item's take_fail text.
C8_TakeSucceedsExactlyWhenAllowed ==
  [][ VerbOf(command') = "take" =>
        LET name == ItemNameOf(command')
            here == {i \in DOMAIN ITEMS :
                       ITEMS[i].name = name /\ ITEMS[i].location = current_room}
            ok   == {i \in here :
                       /\ i \notin taken_items
                       /\ ("take_condition" \in DOMAIN ITEMS[i]
                             => flags[ITEMS[i].take_condition])}
        IN
        /\ (ok # {}) <=> (\E i \in DOMAIN ITEMS :
                            name = ITEMS[i].name /\ result' = PickUpText(i))
        /\ \A i \in ok : /\ inventory' = inventory \cup {i}
                         /\ taken_items' = taken_items \cup {i}
        /\ ok = {} => UNCHANGED <<inventory, taken_items>>
        /\ \A i \in here :
             ("take_condition" \in DOMAIN ITEMS[i]
                /\ ~flags[ITEMS[i].take_condition])
             => /\ result' = ITEMS[i].take_fail
                /\ UNCHANGED <<inventory, taken_items>> ]_vars

\* `take keycard` was refused in the dark engine room.
C8_Witness ==
  /\ VerbOf(command) = "take"
  /\ result = ITEMS["keycard"].take_fail
  /\ "flashlight" \in inventory

\* C9: `go <direction>` moves to the exit's destination when the direction
\* is an exit of the current room; otherwise it stays and returns the
\* message listing the current room's exits; inventory, taken-items and
\* flags do not change, and the current room is always a room of ROOMS.
C9_GoFollowsExits ==
  /\ [](current_room \in DOMAIN ROOMS)
  /\ [][ (VerbOf(command') = "go" /\ DirectionOf(command') # "") =>
           LET d     == DirectionOf(command')
               exits == ROOMS[current_room].exits
           IN
           /\ IF \E i \in 1..Len(exits) : exits[i][1] = d
              THEN \E i \in 1..Len(exits) :
                     exits[i][1] = d /\ current_room' = exits[i][2]
              ELSE /\ current_room' = current_room
                   /\ result' = "You can't go " \o d \o ". Exits: "
                                  \o join(", ", ExitKeys(exits)) \o "."
           /\ UNCHANGED <<inventory, taken_items, flags>> ]_vars

\* `go up` was refused in the corridor, with the four exits listed.
C9_Witness ==
  /\ current_room = "corridor"
  /\ result = "You can't go up. Exits: south, north, east, west."

\* The two ways of typing the crew log's name.
CrewLogNames == { <<"crew", WS, "log">>, <<"crew_log">> }

\* C10 as stated: `use` of the crew log gives the same narrative and the
\* same resulting state as `read` of it, whether or not it is held.
C10_UseCrewLogIsRead ==
  \A a \in CrewLogNames :
    execute(Self, <<"use", WS>> \o a) = execute(Self, <<"read", WS>> \o a)

\* C10 amended: while the crew log is held, `use` of it gives the same
\* narrative and the same resulting state as `read` of it; while it is not
\* held both leave the same state (only the move counter advanced) but
\* `use` returns "You don't have a 'crew log'." and `read` returns "You don't
\* have the crew log.".
C10_UseCrewLogIsReadWhenHeld ==
  \A a \in CrewLogNames :
    LET u == execute(Self, <<"use", WS>> \o a)
        r == execute(Self, <<"read", WS>> \o a)
    IN
    /\ u.self = r.self
    /\ u.self = [Self EXCEPT !.moves = @ + 1]
    /\ IF "crew_log" \in inventory
       THEN u.text = ReadText /\ r.text = ReadText
       ELSE /\ u.text = "You don't have a 'crew log'."
            /\ r.text = "You don't have the crew log."

\* The held crew log was used, outside the med bay, and its text returned.
C10_Witness ==
  /\ VerbOf(command) = "use"
  /\ "crew_log" \in inventory
  /\ current_room = "bridge"
  /\ result = ReadText

\* The held items whose puzzle effect is tied to one room, with that room.
EffectRoom == [flashlight |-> "engine_room", keycard |-> "bridge"]

\* C11 as stated: `use` of the held flashlight outside the engine room, or of
\* the held keycard outside the bridge, returns "You can't figure out how to
\* use the <item> here." and changes nothing but the move counter.
C11_GenericUseMessage ==
  [][ \A i \in DOMAIN EffectRoom :
        (/\ VerbOf(command') = "use"
         /\ ItemNameOf(command') = ITEMS[i].name
         /\ i \in inventory
         /\ current_room # EffectRoom[i])
        => /\ result' = "You can't figure out how to use the "
                          \o ITEMS[i].name \o " here."
           /\ UNCHANGED <<current_room, inventory, taken_items, flags>> ]_vars

\* C11 amended: `use` of the held flashlight outside the engine room returns
\* "You wave the flashlight around. Nothing interesting here.", `use` of the
\* held keycard outside the bridge returns "There's nothing to use the
\* keycard on here."; both change nothing but the move counter.
C11_ItemSpecificUseMessage ==
  [][ \A i \in DOMAIN EffectRoom :
        (/\ VerbOf(command') = "use"
         /\ ItemNameOf(command') = ITEMS[i].name
         /\ i \in inventory
         /\ current_room # EffectRoom[i])
        => /\ result' = IF i = "flashlight"
                        THEN "You wave the flashlight around. Nothing interesting here."
                        ELSE "There's nothing to use the keycard on here."
           /\ UNCHANGED <<current_room, inventory, taken_items, flags>>
           /\ moves' = moves + 1 ]_vars

\* The held keycard was used in the corridor.
C11_Witness ==
  /\ result = "There's nothing to use the keycard on here."
  /\ current_room = "corridor"
  /\ "keycard" \in inventory

\* C12: the `look` text depends on current room, flags and taken-items only
\* (not on inventory or move counter), and a `go` through an exit returns
\* "You enter the <name>." and a blank line followed by the text `look`
\* returns in the state reached.
C12_LookTextIsStateFunction ==
  /\ [](\A inv \in SUBSET DOMAIN ITEMS, m \in 0..(MaxMoves + 1) :
          _look([Self EXCEPT !.inventory = inv, !.moves = m], <<>>).text
            = _look(Self, <<>>).text)
  /\ [][ (/\ VerbOf(command') = "go"
          /\ \E i \in 1..Len(ROOMS[current_room].exits) :
               ROOMS[current_room].exits[i][1] = DirectionOf(command'))
         => result' = "You enter the " \o ROOMS[current_room'].name \o ".\n\n"
                        \o _look(Self', <<>>).text ]_vars
  /\ [][ VerbOf(command') = "look" => result' = _look(Self', <<>>).text ]_vars

\* The med bay was entered again after the crew log had been taken.
C12_Witness ==
  /\ VerbOf(command) = "go"
  /\ current_room = "med_bay"
  /\ "crew_log" \in taken_items
  /\ result = "You enter the Med Bay.\n\n" \o ROOMS["med_bay"].description_looted

(***************************************************************************)
(* eval/bash_runner.py and eval/harness.py: the turn controller.           *)
(*                                                                         *)
(* `h` is the record of a playthrough's locals; an iteration of the loop   *)
(* is an operator from h and the provider's response to the set of records *)
(* the iteration can end in (a set because the shell outside decides what  *)
(* a command prints and whether it creates the .win file).                 *)
(* An optional value (a content that may be None) is <<>> or <<value>>.    *)
(***************************************************************************)
\* A playthrough makes at most this many successful provider calls.
MaxTurns == 6

\* The largest configured token limit.
MaxTokenLimit == 3

None == <<>>

Some(x) == <<x>>

Msg(role, content) == [role |-> role, content |-> content]

\* messages.append(...)
Say(h, role, content) ==
  [h EXCEPT !.new_messages = Append(@, Msg(role, content))]

\* "GIVE_UP" in text.upper(), on the words of the reply vocabulary.
ContainsGiveUp(text) ==
  \E i \in 1..Len(text) : text[i] \in {"GIVE_UP", "give_up", "Give_Up."}

\* text.split("\n")[0]
RECURSIVE first_line(_)
first_line(s) ==
  IF s = <<>> \/ Head(s) = NL THEN <<>> ELSE <<Head(s)>> \o first_line(Tail(s))

\* The backtick character (written out: the module text cannot quote it).
BT == "<backtick>"

RECURSIVE lstrip_backticks(_)
lstrip_backticks(s) ==
  IF s # <<>> /\ Head(s) = BT THEN lstrip_backticks(Tail(s)) ELSE s

RECURSIVE rstrip_backticks(_)
rstrip_backticks(s) ==
  IF s # <<>> /\ s[Len(s)] = BT
  THEN rstrip_backticks(SubSeq(s, 1, Len(s) - 1)) ELSE s

\* command.strip(BT)
strip_backticks(s) == rstrip_backticks(lstrip_backticks(s))

MARK == "<|"

\* command[:command.index("<|")]
RECURSIVE before_marker(_)
before_marker(s) ==
  IF s = <<>> \/ Head(s) = MARK THEN <<>>
  ELSE <<Head(s)>> \o before_marker(Tail(s))

\* harness.py:141-144, the command of a reply
extract_command(reply) ==
  LET c1 == first_line(strip(reply))
      c2 == strip(strip_backticks(c1))
  IN IF \E i \in 1..Len(c2) : c2[i] = MARK
     THEN strip(before_marker(c2))
     ELSE c2

\* The count of all blank commands of the list, not only of those at its end.
TrailingBlanks_counts_all(cs) ==
  Cardinality({k \in 1..Len(cs) : cs[k] = ""})

\* harness.py:151-156, the number of blank commands at the end of the list
RECURSIVE TrailingBlanks(_)
TrailingBlanks(cs) ==
  IF cs = <<>> \/ cs[Len(cs)] # "" THEN 0
  ELSE 1 + TrailingBlanks(SubSeq(cs, 1, Len(cs) - 1))

\* Loop detection that compares the last two commands only.
LoopDetected_on_two(cs) ==
  /\ Len(cs) >= 2
  /\ cs[Len(cs)] = cs[Len(cs) - 1]

\* harness.py:165
LoopDetected(cs) ==
  /\ Len(cs) >= 3
  /\ cs[Len(cs)] = cs[Len(cs) - 1]
  /\ cs[Len(cs) - 1] = cs[Len(cs) - 2]

LoopText(c) ==
  "You have run '" \o c
  \o "' 3 times in a row with the same result. Try a different command."

\* BashRunner.run_command followed by BashRunner.check_win: what the command
\* returns and whether the .win file exists afterwards.  The directory tree
\* and the subprocess are outside the program: whether a cd target exists,
\* what a command prints, whether it times out and whether it creates .win
\* are theirs to decide.
run_command(cmd, wf) ==
  LET c == strip(cmd) IN
  IF c = <<>>
  THEN {[output |-> "", win_file |-> wf]}
  ELSE IF Len(c) >= 2 /\ c[1] = "cd" /\ c[2] = WS
  THEN LET target == Str(strip(SubSeq(c, 3, Len(c)))) IN
       { [output |-> "", win_file |-> wf],
         [output |-> "bash: cd: " \o target \o ": No such file or directory",
          win_file |-> wf] }
  ELSE { [output |-> o, win_file |-> w] :
           o \in {"", "README", "ERROR: Command timed out."},
           w \in {wf, TRUE} }

\* One iteration of the loop of run_bash_eval after the budget check, for a
\* provider call that returned `reply` (an optional text) and `usage`.
bash_iteration(h0, reply, usage) ==
  IF reply = None
  THEN {[h0 EXCEPT !.pc = "raised"]}
  ELSE
    LET text == strip(reply[1])
        h1   == [h0 EXCEPT !.total_prompt_tokens = @ + usage[1],
                           !.total_completion_tokens = @ + usage[2],
                           !.turns = @ + 1]
    IN
    IF ContainsGiveUp(text)
    THEN {[h1 EXCEPT !.gave_up = TRUE, !.pc = "finish", !.stop = "gave_up"]}
    ELSE
      LET cmd == extract_command(text)
          h2  == Say([h1 EXCEPT !.commands = Append(@, Str(cmd))],
                     "assistant", Str(text))
      IN
      IF cmd = <<>>
      THEN LET h3 == [h2 EXCEPT !.empty_streak = TrailingBlanks(h2.commands)]
           IN IF h3.empty_streak >= 5
              THEN {[h3 EXCEPT !.pc = "finish", !.stop = "force_stop"]}
              ELSE {Say(h3, "user",
                        "Invalid command. Send exactly one bash command, nothing else.")}
      ELSE
        LET h3 == IF LoopDetected(h2.commands)
                  THEN Say(h2, "user", LoopText(Str(cmd)))
                  ELSE h2
        IN
        { LET h4 == [h3 EXCEPT !.executed = @ + 1, !.win_file = o.win_file]
          IN IF o.win_file
             THEN Say([h4 EXCEPT !.won = TRUE, !.pc = "finish", !.stop = "won"],
                      "user", o.output)
             ELSE Say(h4, "user",
                      IF o.output # "" THEN o.output ELSE "(no output)")
          : o \in run_command(cmd, h3.win_file) }

\* A parsed argument object: a dict is a set of <<key, value>> pairs.
\* json.loads of a tool call's argument payload; the payload is a JSON
\* object, a JSON value that is no object (an array), text that is no JSON,
\* or absent (None).
json_loads(payload) ==
  CASE payload.kind = "object"    -> [raised |-> "", isdict |-> TRUE,
                                      items |-> payload.items]
    [] payload.kind = "array"     -> [raised |-> "", isdict |-> FALSE,
                                      items |-> {}]
    [] payload.kind = "malformed" -> [raised |-> "JSONDecodeError",
                                      isdict |-> FALSE, items |-> {}]
    [] payload.kind = "none"      -> [raised |-> "TypeError",
                                      isdict |-> FALSE, items |-> {}]

\* arguments.get(key, "")
dict_get(arguments, key) ==
  IF \E kv \in arguments.items : kv[1] = key
  THEN (CHOOSE kv \in arguments.items : kv[1] = key)[2]
  ELSE <<>>

\* execute_tool that hands a tool name it does not know to the engine as a
\* command.
execute_tool_forwards_unknown(engine, tool_name, arguments) ==
  LET Call(cmd) == LET r == execute(engine, cmd)
                   IN [raised |-> FALSE, self |-> r.self, text |-> r.text,
                       called |-> TRUE, cmd |-> cmd]
      Raise == [raised |-> TRUE, self |-> engine, text |-> "",
                called |-> FALSE, cmd |-> <<>>]
  IN
  CASE tool_name = "look" -> Call(<<"look">>)
    [] tool_name = "go" ->
         IF arguments.isdict
         THEN Call(<<"go", WS>> \o dict_get(arguments, "direction"))
         ELSE Raise
    [] tool_name = "take" ->
         IF arguments.isdict
         THEN Call(<<"take", WS>> \o dict_get(arguments, "item"))
         ELSE Raise
    [] tool_name = "use" ->
         IF arguments.isdict
         THEN Call(<<"use", WS>> \o dict_get(arguments, "item"))
         ELSE Raise
    [] tool_name = "read" ->
         IF arguments.isdict
         THEN Call(<<"read", WS>> \o dict_get(arguments, "item"))
         ELSE Raise
    [] tool_name = "inventory" -> Call(<<"inventory">>)
    [] OTHER -> Call(<<tool_name>>)

\* McpRunner.execute_tool: the engine after the call, the narrative, whether
\* engine.execute was called and with what, and whether the call raised
\* (arguments.get on a value that is no dict).
execute_tool(engine, tool_name, arguments) ==
  LET Call(cmd) == LET r == execute(engine, cmd)
                   IN [raised |-> FALSE, self |-> r.self, text |-> r.text,
                       called |-> TRUE, cmd |-> cmd]
      Raise == [raised |-> TRUE, self |-> engine, text |-> "",
                called |-> FALSE, cmd |-> <<>>]
  IN
  CASE tool_name = "look" -> Call(<<"look">>)
    [] tool_name = "go" ->
         IF arguments.isdict
         THEN Call(<<"go", WS>> \o dict_get(arguments, "direction"))
         ELSE Raise
    [] tool_name = "take" ->
         IF arguments.isdict
         THEN Call(<<"take", WS>> \o dict_get(arguments, "item"))
         ELSE Raise
    [] tool_name = "use" ->
         IF arguments.isdict
         THEN Call(<<"use", WS>> \o dict_get(arguments, "item"))
         ELSE Raise
    [] tool_name = "read" ->
         IF arguments.isdict
         THEN Call(<<"read", WS>> \o dict_get(arguments, "item"))
         ELSE Raise
    [] tool_name = "inventory" -> Call(<<"inventory">>)
    [] OTHER -> [raised |-> FALSE, self |-> engine,
                 text |-> "Unknown tool: '" \o tool_name \o "'",
                 called |-> FALSE, cmd |-> <<>>]

\* The for loop over the tool calls without the break after a win.
RECURSIVE run_tool_calls_no_break(_, _)
run_tool_calls_no_break(h, tcs) ==
  IF tcs = <<>> THEN h
  ELSE
    LET tc     == Head(tcs)
        loaded == json_loads(tc.arguments)
    IN
    IF loaded.raised = "TypeError"
    THEN [h EXCEPT !.pc = "raised"]
    ELSE
      LET arguments == IF loaded.raised = "JSONDecodeError"
                       THEN [raised |-> "", isdict |-> TRUE, items |-> {}]
                       ELSE loaded
          h1 == [h EXCEPT !.tool_calls_log =
                             Append(@, [tool |-> tc.name, args |-> arguments]),
                          !.n_logged = @ + 1]
          r  == execute_tool(h1.engine, tc.name, arguments)
      IN
      IF r.raised
      THEN [h1 EXCEPT !.pc = "raised"]
      ELSE
        LET h2 == Say([h1 EXCEPT
                         !.engine = r.self,
                         !.executed = @ + 1,
                         !.command = IF r.called THEN r.cmd ELSE @,
                         !.result = IF r.called THEN r.text ELSE @,
                         !.recognized =
                            IF r.called /\ VerbOf(r.cmd) \in
                                 {"look", "go", "take", "use", "read",
                                  "inventory", "help"}
                            THEN @ + 1 ELSE @],
                      "tool", r.text)
        IN
        IF is_won(h2.engine)
        THEN run_tool_calls_no_break(
               [h2 EXCEPT !.won = TRUE, !.pc = "finish", !.stop = "won"],
               Tail(tcs))
        ELSE run_tool_calls_no_break(h2, Tail(tcs))

\* harness.py:240-262, the for loop over the tool calls of one response.
RECURSIVE run_tool_calls(_, _)
run_tool_calls(h, tcs) ==
  IF tcs = <<>> THEN h
  ELSE
    LET tc     == Head(tcs)
        loaded == json_loads(tc.arguments)
    IN
    IF loaded.raised = "TypeError"
    THEN [h EXCEPT !.pc = "raised"]
    ELSE
      LET arguments == IF loaded.raised = "JSONDecodeError"
                       THEN [raised |-> "", isdict |-> TRUE, items |-> {}]
                       ELSE loaded
          h1 == [h EXCEPT !.tool_calls_log =
                             Append(@, [tool |-> tc.name, args |-> arguments]),
                          !.n_logged = @ + 1]
          r  == execute_tool(h1.engine, tc.name, arguments)
      IN
      IF r.raised
      THEN [h1 EXCEPT !.pc = "raised"]
      ELSE
        LET h2 == Say([h1 EXCEPT
                         !.engine = r.self,
                         !.executed = @ + 1,
                         !.command = IF r.called THEN r.cmd ELSE @,
                         !.result = IF r.called THEN r.text ELSE @,
                         !.recognized =
                            IF r.called /\ VerbOf(r.cmd) \in
                                 {"look", "go", "take", "use", "read",
                                  "inventory", "help"}
                            THEN @ + 1 ELSE @],
                      "tool", r.text)
        IN
        IF is_won(h2.engine)
        THEN [h2 EXCEPT !.won = TRUE, !.pc = "finish", !.stop = "won"]
        ELSE run_tool_calls(h2, Tail(tcs))

NudgeText == "Use the available tools to interact with the game."

\* The iteration of run_mcp_eval in which a content-only turn does not reset
\* empty_streak.
mcp_iteration_no_reset(h0, tool_calls, content, usage) ==
  LET h1 == [h0 EXCEPT !.total_prompt_tokens = @ + usage[1],
                       !.total_completion_tokens = @ + usage[2],
                       !.turns = @ + 1]
  IN
  IF tool_calls # <<>>
  THEN run_tool_calls(Say([h1 EXCEPT !.empty_streak = 0],
                          "assistant", "<model_dump>"),
                      tool_calls)
  ELSE IF content # None /\ content[1] # <<>>
  THEN LET text == strip(content[1])
           h2   == Say(h1, "assistant", Str(text))
       IN IF ContainsGiveUp(text)
          THEN [h2 EXCEPT !.gave_up = TRUE, !.pc = "finish", !.stop = "gave_up"]
          ELSE Say(h2, "user", NudgeText)
  ELSE LET h2 == Say([h1 EXCEPT !.empty_streak = @ + 1], "assistant", "")
       IN IF h2.empty_streak >= 5
          THEN [h2 EXCEPT !.pc = "finish", !.stop = "force_stop"]
          ELSE Say(h2, "user", NudgeText)

\* One iteration of the loop of run_mcp_eval after the budget check, for a
\* provider call that returned a message with `tool_calls` (a list, empty
\* when there is none) and `content` (an optional text), and `usage`.
mcp_iteration(h0, tool_calls, content, usage) ==
  LET h1 == [h0 EXCEPT !.total_prompt_tokens = @ + usage[1],
                       !.total_completion_tokens = @ + usage[2],
                       !.turns = @ + 1]
  IN
  IF tool_calls # <<>>
  THEN run_tool_calls(Say([h1 EXCEPT !.empty_streak = 0],
                          "assistant", "<model_dump>"),
                      tool_calls)
  ELSE IF content # None /\ content[1] # <<>>
  THEN LET text == strip(content[1])
           h2   == Say(h1, "assistant", Str(text))
       IN IF ContainsGiveUp(text)
          THEN [h2 EXCEPT !.gave_up = TRUE, !.pc = "finish", !.stop = "gave_up"]
          ELSE Say([h2 EXCEPT !.empty_streak = 0], "user", NudgeText)
  ELSE LET h2 == Say([h1 EXCEPT !.empty_streak = @ + 1], "assistant", "")
       IN IF h2.empty_streak >= 5
          THEN [h2 EXCEPT !.pc = "finish", !.stop = "force_stop"]
          ELSE Say(h2, "user", NudgeText)

\* harness.py:294-318, the result record (the timestamp left out).
_finish(h, m) ==
  [ mode |-> m,
    won |-> h.won,
    gave_up |-> h.gave_up,
    total_tokens |-> h.total_prompt_tokens + h.total_completion_tokens,
    prompt_tokens |-> h.total_prompt_tokens,
    completion_tokens |-> h.total_completion_tokens,
    turns |-> h.turns,
    n_commands |-> IF m = "bash" THEN Len(h.commands) ELSE h.n_logged ]

(***************************************************************************)
(* The playthrough as a state machine: one run of run_bash_eval or         *)
(* run_mcp_eval, from the state before the first budget check.             *)
(***************************************************************************)
\* The locals the variables hold.
H ==
  [ pc |-> pc, stop |-> stop,
    total_prompt_tokens |-> total_prompt_tokens,
    total_completion_tokens |-> total_completion_tokens,
    turns |-> turns, commands |-> commands,
    tool_calls_log |-> tool_calls_log, n_logged |-> n_logged,
    won |-> won, gave_up |-> gave_up, empty_streak |-> empty_streak,
    new_messages |-> new_messages,
    executed |-> executed, win_file |-> win_file,
    engine |-> Self, command |-> command, result |-> result,
    recognized |-> recognized ]

\* The state the record n describes.
Apply(n) ==
  /\ pc' = n.pc
  /\ stop' = n.stop
  /\ total_prompt_tokens' = n.total_prompt_tokens
  /\ total_completion_tokens' = n.total_completion_tokens
  /\ turns' = n.turns
  /\ commands' = n.commands
  /\ tool_calls_log' = n.tool_calls_log
  /\ n_logged' = n.n_logged
  /\ won' = n.won
  /\ gave_up' = n.gave_up
  /\ empty_streak' = n.empty_streak
  /\ new_messages' = n.new_messages
  /\ executed' = n.executed
  /\ win_file' = n.win_file
  /\ current_room' = n.engine.current_room
  /\ inventory' = n.engine.inventory
  /\ flags' = n.engine.flags
  /\ taken_items' = n.engine.taken_items
  /\ moves' = n.engine.moves
  /\ command' = n.command
  /\ result' = n.result
  /\ recognized' = n.recognized

\* The locals at the start of an iteration: nothing appended yet.
IterationStart == [H EXCEPT !.new_messages = <<>>, !.tool_calls_log = <<>>]

TotalTokens == total_prompt_tokens + total_completion_tokens

\* The budget check with > for >=.
BudgetExceeded_strictly == TotalTokens > token_limit

\* harness.py:108-109 / 210-211: total_tokens >= token_limit
BudgetExceeded == TotalTokens >= token_limit

\* What the provider may report as (prompt_tokens, completion_tokens).
Usages == {<<0, 0>>, <<1, 1>>}

TokenLimits == {0, MaxTokenLimit}

\* The contents the provider may return in the text modality.
BashReplies ==
  { None,
    Some(<<>>),
    Some(<<"ls">>),
    Some(<<BT, "ls", BT>>),
    Some(<<"ls", MARK, "end">>),
    Some(<<"ls", NL, "cd", WS, "north">>),
    Some(<<"cd", WS, "north">>),
    Some(<<WS, "cd", WS, "north", NL>>),
    Some(<<BT, BT>>),
    Some(<<MARK, "end">>),
    Some(<<"GIVE_UP">>),
    Some(<<"I", WS, "give_up">>),
    Some(<<"ls", NL, "GIVE_UP">>) }

ObjArgs(key, value) == [kind |-> "object", items |-> {<<key, value>>}]

NoArgs == [kind |-> "object", items |-> {}]

BadArgs(kind) == [kind |-> kind, items |-> {}]

ToolCall(name, payload) == [name |-> name, arguments |-> payload]

Go(d) == ToolCall("go", ObjArgs("direction", <<d>>))

Take(i) == ToolCall("take", ObjArgs("item", <<i>>))

Use(i) == ToolCall("use", ObjArgs("item", <<i>>))

Look == ToolCall("look", NoArgs)

\* The tool-call lists the provider may return in one response.
ToolCallLists ==
  { <<Look>>,
    <<Go("north")>>,
    <<Take("flashlight")>>,
    <<ToolCall("help", NoArgs)>>,
    <<ToolCall("go", BadArgs("malformed"))>>,
    <<ToolCall("go", BadArgs("array"))>>,
    <<ToolCall("take", BadArgs("none"))>>,
    <<Look, Look, Look>>,
    <<ToolCall("go", BadArgs("malformed")), Go("north")>>,
    <<Go("north"), Go("east"), Take("flashlight")>>,
    <<Use("flashlight"), Take("keycard"), Go("west")>>,
    <<Go("north"), Use("keycard"), Look>> }

\* The messages the provider may return in the tool-call modality.
McpResponses ==
  { [tool_calls |-> tcs, content |-> None] : tcs \in ToolCallLists }
  \cup { [tool_calls |-> <<Look>>, content |-> Some(<<"GIVE_UP">>)] }
  \cup { [tool_calls |-> <<>>, content |-> c] :
           c \in { None, Some(<<>>), Some(<<WS>>), Some(<<"thinking">>),
                   Some(<<"GIVE_UP">>), Some(<<"I", WS, "give_up">>) } }

\* run_bash_eval / run_mcp_eval up to the loop: the runner is created and
\* started (McpRunner.start executes `look`), the conversation holds the
\* system prompt and the first user message.
InitEval ==
  /\ mode \in {"bash", "mcp"}
  /\ token_limit \in TokenLimits
  /\ pc = "loop"
  /\ stop = ""
  /\ total_prompt_tokens = 0
  /\ total_completion_tokens = 0
  /\ turns = 0
  /\ commands = <<>>
  /\ tool_calls_log = <<>>
  /\ n_logged = 0
  /\ won = FALSE
  /\ gave_up = FALSE
  /\ empty_streak = 0
  /\ response = [failed |-> FALSE, content |-> None, tool_calls |-> <<>>,
                 usage |-> <<0, 0>>]
  /\ new_messages = <<>>
  /\ provider_calls = 0
  /\ executed = 0
  /\ win_file = FALSE
  /\ record = None
  /\ session = 0
  /\ connected = {}
  /\ \E r \in {IF mode = "mcp" THEN execute(GameEngine, <<"look">>)
               ELSE Ret(GameEngine, "")} :
       /\ current_room = r.self.current_room
       /\ inventory = r.self.inventory
       /\ flags = r.self.flags
       /\ taken_items = r.self.taken_items
       /\ moves = r.self.moves
       /\ result = r.text
  /\ command = IF mode = "mcp" THEN <<"look">> ELSE <<>>
  /\ recognized = IF mode = "mcp" THEN 1 ELSE 0

\* harness.py:108-111 / 210-213: the budget check stops the loop.
TokenLimitHit ==
  /\ pc = "loop"
  /\ BudgetExceeded
  /\ Apply([IterationStart EXCEPT !.pc = "finish", !.stop = "token_limit"])
  /\ UNCHANGED <<mode, token_limit, response, provider_calls, record,
                 svars>>

\* A provider failure after which the loop goes on (continue for break).
ProviderError_continues ==
  /\ pc = "loop"
  /\ ~BudgetExceeded
  /\ provider_calls < MaxTurns
  /\ provider_calls' = provider_calls + 1
  /\ response' = [failed |-> TRUE, content |-> None, tool_calls |-> <<>>,
                  usage |-> <<0, 0>>]
  /\ Apply(IterationStart)
  /\ UNCHANGED <<mode, token_limit, record, svars>>

\* harness.py:113-122 / 215-225: the provider call raises.
ProviderError ==
  /\ pc = "loop"
  /\ ~BudgetExceeded
  /\ provider_calls' = provider_calls + 1
  /\ response' = [failed |-> TRUE, content |-> None, tool_calls |-> <<>>,
                  usage |-> <<0, 0>>]
  /\ Apply([IterationStart EXCEPT !.pc = "finish", !.stop = "api_error"])
  /\ UNCHANGED <<mode, token_limit, record, svars>>

\* harness.py:107-181: an iteration of run_bash_eval whose call returns,
\* reporting one of the usages us.
BashTurnOf(us) ==
  /\ pc = "loop"
  /\ mode = "bash"
  /\ ~BudgetExceeded
  /\ turns < MaxTurns
  /\ \E reply \in BashReplies, usage \in us :
       /\ response' = [failed |-> FALSE, content |-> reply,
                       tool_calls |-> <<>>, usage |-> usage]
       /\ \E n \in bash_iteration(IterationStart, reply, usage) : Apply(n)
  /\ provider_calls' = provider_calls + 1
  /\ UNCHANGED <<mode, token_limit, record, svars>>

BashTurn == BashTurnOf(Usages)

\* harness.py:209-287: an iteration of run_mcp_eval whose call returns,
\* reporting one of the usages us.
McpTurnOf(us) ==
  /\ pc = "loop"
  /\ mode = "mcp"
  /\ ~BudgetExceeded
  /\ turns < MaxTurns
  /\ \E m \in McpResponses, usage \in us :
       /\ response' = [failed |-> FALSE, content |-> m.content,
                       tool_calls |-> m.tool_calls, usage |-> usage]
       /\ \E n \in {mcp_iteration(IterationStart, m.tool_calls, m.content, usage)} :
            Apply(n)
  /\ provider_calls' = provider_calls + 1
  /\ UNCHANGED <<mode, token_limit, record, svars>>

McpTurn == McpTurnOf(Usages)

\* harness.py:183-185 / 289-291: the loop is left and _finish returns.
Finish ==
  /\ pc = "finish"
  /\ record' = Some(_finish(H, mode))
  /\ pc' = "done"
  /\ UNCHANGED <<vars, svars, mode, token_limit, stop, total_prompt_tokens,
                 total_completion_tokens, turns, commands, tool_calls_log,
                 n_logged, won, gave_up, empty_streak, response,
                 new_messages, provider_calls, executed,
                 win_file>>

NextEval == TokenLimitHit \/ ProviderError \/ BashTurn \/ McpTurn \/ Finish

SpecEval == InitEval /\ [][NextEval]_evars

\* The usages of a provider that reports at least one token per call.
PaidUsages == {<<1, 0>>, <<0, 1>>, <<1, 1>>}

BashTurnPaid == BashTurnOf(PaidUsages)

McpTurnPaid == McpTurnOf(PaidUsages)

NextPaid ==
  TokenLimitHit \/ ProviderError \/ BashTurnPaid \/ McpTurnPaid \/ Finish

\* The playthroughs with such a provider.  The loop is sequential code with
\* no blocking step but the provider call, which returns or raises: a step
\* that can be taken is taken.
SpecPaid == InitEval /\ [][NextPaid]_evars /\ WF_evars(NextPaid)

TypeOKEval ==
  /\ mode \in {"bash", "mcp"}
  /\ pc \in {"loop", "finish", "done", "raised"}
  /\ stop \in {"", "token_limit", "api_error", "gave_up", "force_stop", "won"}
  /\ turns \in 0..MaxTurns
  /\ empty_streak \in 0..5
  /\ provider_calls \in 0..(MaxTurns + 1)

(***************************************************************************)
(* mcp_adventure/server.py: the tool server.  Its handlers all act on the  *)
(* one engine created when the module is loaded, whichever session the     *)
(* request comes from.                                                     *)
(***************************************************************************)

\* The number of sessions the server is taken to serve.
MaxSessions == 2

\* The largest move count the server's engine is followed up to.
MaxRequests == 6

Sessions == 1..MaxSessions

\* The command strings the handlers look, go, take, use, read, inventory and
\* help build from their arguments.
ServerCommands ==
  { <<"look">>, <<"inventory">>, <<"help">> }
  \cup { <<"go", WS, d>> : d \in {"north", "south", "east", "west"} }
  \cup { <<v, WS, i>> : v \in {"take", "use"}, i \in {"flashlight", "keycard"} }
  \cup { <<"read", WS, "crew_log">> }

\* The text the status handler returns.
status_text(self) ==
  LET state == get_state(self)
      inv   == join(", ", state.inventory)
  IN join("\n", << "Room: " \o state.current_room,
                   "Inventory: " \o (IF inv = "" THEN "empty" ELSE inv),
                   "Moves: " \o ToString(state.moves),
                   "Won: " \o (IF state.won THEN "True" ELSE "False") >>)

\* The module is loaded: engine = GameEngine().
InitServer == Init

\* One of the handlers look .. help serves a request of session s.
ToolRequest(s, cmd) ==
  /\ moves < MaxRequests
  /\ \E r \in {execute(Self, cmd)} :
       /\ current_room' = r.self.current_room
       /\ inventory' = r.self.inventory
       /\ flags' = r.self.flags
       /\ taken_items' = r.self.taken_items
       /\ moves' = r.self.moves
       /\ result' = r.text
  /\ command' = cmd
  /\ recognized' = recognized + 1
  /\ session' = s
  /\ connected' = connected \cup {s}
  /\ UNCHANGED hvars

\* The status handler serves a request of session s.
StatusRequest(s) ==
  /\ result' = status_text(Self)
  /\ command' = <<"status">>
  /\ session' = s
  /\ connected' = connected \cup {s}
  /\ UNCHANGED <<current_room, inventory, flags, taken_items, moves,
                 recognized, hvars>>

NextServer ==
  \E s \in Sessions :
    \/ \E cmd \in ServerCommands : ToolRequest(s, cmd)
    \/ StatusRequest(s)

SpecServer == InitServer /\ [][NextServer]_allvars

TypeOKServer ==
  /\ session \in 0..MaxSessions
  /\ connected \subseteq Sessions
  /\ moves \in 0..MaxRequests

(***************************************************************************)
(* Properties of the turn controller, checked under SpecEval.              *)
(***************************************************************************)

\* The step is an iteration whose provider call returned.
ProviderReturned ==
  /\ provider_calls' = provider_calls + 1
  /\ ~response'.failed

\* C13: in both modalities the budget check comes before every provider
\* call: from a state whose prompt + completion tokens have reached the
\* limit no provider call is made and nothing is executed, and the loop is
\* left with reason token_limit; with a limit of 0 no call is ever made.
C13_BudgetCheckPrecedesProviderCall ==
  /\ [][ TotalTokens >= token_limit =>
           /\ provider_calls' = provider_calls
           /\ executed' = executed
           /\ pc = "loop" => (pc' = "finish" /\ stop' = "token_limit") ]_evars
  /\ [](token_limit = 0 => provider_calls = 0)

\* A playthrough with a positive limit ended by the budget check after at
\* least one provider call.
C13_Witness ==
  /\ pc = "done"
  /\ stop = "token_limit"
  /\ token_limit > 0
  /\ provider_calls > 0
  /\ TotalTokens >= token_limit

\* C14: in both modalities a returned reply whose content contains the
\* give-up keyword ends the playthrough as gave-up and nothing of that turn
\* is executed, also when the reply carries tool invocations.
C14_GiveUpStopsBeforeAnyExecution ==
  [][ ( /\ ProviderReturned
        /\ response'.content # None
        /\ ContainsGiveUp(response'.content[1]) )
      => /\ gave_up'
         /\ stop' = "gave_up"
         /\ pc' = "finish"
         /\ executed' = executed ]_evars

\* C15: the tool invocations of a response are executed in order; once the
\* engine is won after an invocation the playthrough ends as won, the
\* winning invocation is the last one executed, and no provider call
\* follows.
C15_ToolCallsInOrderUntilWon ==
  /\ [][ ( /\ mode = "mcp"
           /\ ProviderReturned
           /\ response'.tool_calls # <<>> )
         => LET tcs == response'.tool_calls
                log == tool_calls_log'
            IN /\ Len(log) <= Len(tcs)
               /\ \A k \in 1..Len(log) : log[k].tool = tcs[k].name
               /\ n_logged' = n_logged + Len(log)
               /\ is_won(Self') =>
                    /\ won'
                    /\ stop' = "won"
                    /\ pc' = "finish"
                    /\ result' = VictoryText(moves')
                    /\ tcs[Len(log)].name = "use"
               /\ (~is_won(Self') /\ pc' # "raised") =>
                    /\ Len(log) = Len(tcs)
                    /\ pc' = "loop"
                    /\ ~won' ]_evars
  /\ [][ won => (provider_calls' = provider_calls /\ executed' = executed) ]_evars

\* A response of three tool calls whose second one won: the third was not
\* executed.
C15_Witness ==
  /\ mode = "mcp"
  /\ won
  /\ stop = "won"
  /\ Len(response.tool_calls) = 3
  /\ Len(tool_calls_log) = 2

\* The corrective message of harness.py:166-167 is among the messages.
HasLoopMessage(msgs, c) ==
  \E i \in 1..Len(msgs) : msgs[i] = Msg("user", LoopText(c))

\* The last three entries of cs are the same.
LastThreeIdentical(cs) ==
  /\ Len(cs) >= 3
  /\ cs[Len(cs)] = cs[Len(cs) - 1]
  /\ cs[Len(cs) - 1] = cs[Len(cs) - 2]

\* C16: in the text modality a turn with a non-blank command gets the
\* corrective message exactly when the three most recent commands are
\* identical; the command is executed all the same, and the playthrough
\* goes on unless that execution won.
C16_LoopMessageOnThreeIdentical ==
  [][ ( /\ mode = "bash"
        /\ ProviderReturned
        /\ Len(commands') = Len(commands) + 1
        /\ commands'[Len(commands')] # "" )
      => LET c == commands'[Len(commands')]
         IN /\ HasLoopMessage(new_messages', c) <=> LastThreeIdentical(commands')
            /\ executed' = executed + 1
            /\ \/ pc' = "loop" /\ stop' = ""
               \/ pc' = "finish" /\ stop' = "won" /\ won' ]_evars

\* The same command a third time: the message was appended, the command was
\* executed, the loop goes on.
C16_Witness ==
  /\ mode = "bash"
  /\ pc = "loop"
  /\ LastThreeIdentical(commands)
  /\ HasLoopMessage(new_messages, commands[Len(commands)])
  /\ executed >= 3

\* C17: in the tool-call modality too a corrective message follows when the
\* three most recent executed tool calls are identical.
C17_LoopMessageInToolCallModality ==
  ( /\ mode = "mcp"
    /\ pc = "loop"
    /\ LastThreeIdentical(tool_calls_log) )
  => \E i \in 1..Len(new_messages) : new_messages[i].role = "user"

\* response.tool_calls and response.content are both falsy (harness.py:236,
\* 267).
EmptyTurn(r) ==
  /\ r.tool_calls = <<>>
  /\ r.content = None \/ r.content[1] = <<>>

\* C18: in the tool-call modality a turn with neither content nor tool call
\* adds one to the empty streak and is answered by the nudge; the
\* playthrough is force-stopped exactly when the streak reaches 5; a turn
\* with a tool call or with content sets the streak to 0 (unless it gives
\* up, which ends the playthrough).
C18_EmptyStreak ==
  [][ (mode = "mcp" /\ ProviderReturned)
      => IF EmptyTurn(response')
         THEN /\ empty_streak' = empty_streak + 1
              /\ executed' = executed
              /\ IF empty_streak' = 5
                 THEN pc' = "finish" /\ stop' = "force_stop"
                 ELSE /\ pc' = "loop"
                      /\ stop' = ""
                      /\ new_messages'[Len(new_messages')]
                           = Msg("user", NudgeText)
         ELSE /\ stop' # "force_stop"
              /\ ~gave_up' => empty_streak' = 0 ]_evars

\* Five empty turns in a row after a turn that was not empty.
C18_Witness ==
  /\ mode = "mcp"
  /\ stop = "force_stop"
  /\ empty_streak = 5
  /\ turns > 5

\* C19: in the text modality a blank command is not passed to the executor;
\* the playthrough is force-stopped exactly when the five most recent
\* commands are all blank, so a non-blank command restarts the count.
C19_BlankCommands ==
  [][ ( /\ mode = "bash"
        /\ ProviderReturned
        /\ Len(commands') = Len(commands) + 1 )
      => LET cs   == commands'
             n    == Len(cs)
             five == n >= 5 /\ \A k \in (n - 4)..n : cs[k] = ""
         IN IF cs[n] = ""
            THEN /\ executed' = executed
                 /\ win_file' = win_file
                 /\ IF five THEN pc' = "finish" /\ stop' = "force_stop"
                    ELSE pc' = "loop" /\ stop' = ""
            ELSE /\ executed' = executed + 1
                 /\ stop' # "force_stop" ]_evars

\* Five blank commands in a row after a command that was not blank.
C19_Witness ==
  /\ mode = "bash"
  /\ stop = "force_stop"
  /\ Len(commands) > 5
  /\ executed > 0

\* C20: in both modalities a failed provider call ends the playthrough at
\* once: the failed call adds nothing to the token totals or the turn
\* counter, and neither a provider call nor an execution follows it.
C20_ProviderErrorEndsPlaythrough ==
  /\ [][ (provider_calls' = provider_calls + 1 /\ response'.failed)
         => /\ pc' = "finish"
            /\ stop' = "api_error"
            /\ UNCHANGED <<total_prompt_tokens, total_completion_tokens,
                           turns, executed, commands, n_logged, vars>> ]_evars
  /\ [][ stop = "api_error"
         => UNCHANGED <<provider_calls, executed, turns, stop,
                        total_prompt_tokens, total_completion_tokens>> ]_evars

\* A playthrough ended by a provider failure after some turns: the record
\* counts the turns before the failure only.
C20_Witness ==
  /\ pc = "done"
  /\ stop = "api_error"
  /\ turns > 0
  /\ provider_calls = turns + 1
  /\ record[1].turns = turns

\* C21: whatever the provider returns, and when it fails, run_bash_eval and
\* run_mcp_eval reach _finish: no playthrough ends by an exception.
C21_NoPlaythroughRaises ==
  pc # "raised"

\* The payload is not the text of a JSON object.
NotAnObject(payload) == payload.kind # "object"

\* C22: a tool invocation whose payload cannot be parsed into an argument
\* object is logged and executed with empty arguments, and the turn goes on
\* with the invocations after it: the payload never makes the turn raise.
C22_UnparsablePayloadIsEmptyArguments ==
  [][ ( /\ mode = "mcp"
        /\ ProviderReturned
        /\ \E k \in 1..Len(response'.tool_calls) :
             NotAnObject(response'.tool_calls[k].arguments) )
      => LET tcs == response'.tool_calls
             log == tool_calls_log'
         IN /\ pc' # "raised"
            /\ ~won' => Len(log) = Len(tcs)
            /\ \A k \in 1..Len(log) :
                 NotAnObject(tcs[k].arguments) =>
                   log[k] = [tool |-> tcs[k].name,
                             args |-> [raised |-> "", isdict |-> TRUE,
                                       items |-> {}]] ]_evars

\* C23: every session of the tool server owns its engine: the first request
\* of a session finds the initial game state, and a request of one session
\* leaves the state the other sessions observe as it was.
C23_SessionsOwnTheirEngine ==
  [][ /\ session' \notin connected => Self = GameEngine
      /\ \A t \in connected \ {session'} :
           get_state(Self') = get_state(Self) ]_allvars

\* The action of the recognized command cmd fails in the current state: a
\* `go` without an exit of that name, a `take` without an item of that name
\* here that may be taken now, a `use` of something not held.
ActionFails(cmd) ==
  LET v == VerbOf(cmd) IN
  \/ /\ v = "go"
     /\ LET exits == ROOMS[current_room].exits
        IN \A i \in 1..Len(exits) : exits[i][1] # DirectionOf(cmd)
  \/ /\ v = "take"
     /\ \A i \in DOMAIN ITEMS :
          \/ ITEMS[i].name # ItemNameOf(cmd)
          \/ ITEMS[i].location # current_room
          \/ i \in taken_items
          \/ /\ "take_condition" \in DOMAIN ITEMS[i]
             /\ ~flags[ITEMS[i].take_condition]
  \/ /\ v = "use"
     /\ \A i \in inventory : ITEMS[i].name # ItemNameOf(cmd)

\* C24: a recognized command whose action fails, and every look, inventory,
\* help and read, leaves the room, the inventory, the taken items and the
\* flags as they were and adds one to the move counter; the engine answers
\* with a narrative and goes on accepting commands.
C24_FailedAndPassiveCommandsOnlyCount ==
  [][ ( \/ VerbOf(command') \in {"look", "inventory", "help", "read"}
        \/ ActionFails(command') )
      => /\ UNCHANGED <<current_room, inventory, taken_items, flags>>
         /\ moves' = moves + 1
         /\ result' # "" ]_vars

\* The held crew log was read: nothing but the move counter changed.
C24_Witness ==
  /\ VerbOf(command) = "read"
  /\ result = ReadText
  /\ "crew_log" \in inventory
  /\ moves >= 4

\* The record of the playthrough in modality m whose first provider call
\* fails: _finish on the locals as they were set before the loop.
FirstCallFailedRecord(m) ==
  _finish([ won |-> FALSE, gave_up |-> FALSE,
            total_prompt_tokens |-> 0, total_completion_tokens |-> 0,
            turns |-> 0, commands |-> <<>>, n_logged |-> 0 ], m)

\* C25: the result record classifies the outcome: a playthrough that ended
\* for a reason other than a provider error returns a record that differs
\* from the record of a playthrough ended by a provider error.
C25_RecordClassifiesOutcome ==
  (pc = "done" /\ stop # "api_error")
  => record[1] # FirstCallFailedRecord(mode)

\* C26: with a provider that reports at least one token per call the turn
\* loop ends, in both modalities and whatever the replies, and no more than
\* token_limit provider calls are made.
C26_TokenBudgetBoundsLength ==
  /\ [](provider_calls <= token_limit)
  /\ <>(pc \in {"done", "raised"})

\* A playthrough that used its budget up one token per call.
C26_Witness ==
  /\ pc = "done"
  /\ stop = "token_limit"
  /\ token_limit > 0
  /\ provider_calls = token_limit
  /\ turns = token_limit

\* The longest route the formulas of C27 look for, in `go` commands.
MaxRoute == 2

\* The sequences of at most n directions.
RECURSIVE DirSeqs(_)
DirSeqs(n) ==
  IF n = 0 THEN {<<>>}
  ELSE LET shorter == DirSeqs(n - 1)
       IN shorter \cup { Append(p, d) : p \in shorter,
                         d \in {"north", "south", "east", "west"} }

\* The room the exits of ROOMS lead to from room r along the directions p
\* ("nowhere" when a direction is not an exit).
RECURSIVE Follow(_, _)
Follow(r, p) ==
  IF p = <<>> THEN r
  ELSE LET exits == ROOMS[r].exits
       IN IF \E i \in 1..Len(exits) : exits[i][1] = Head(p)
          THEN Follow(ExitTarget(exits, Head(p)), Tail(p))
          ELSE "nowhere"

\* A shortest sequence of `go` commands that the map says leads from room
\* `from` to room `to`.
Route(from, to) ==
  LET ps == {p \in DirSeqs(MaxRoute) : Follow(from, p) = to}
      p  == CHOOSE q \in ps : \A o \in ps : Len(q) <= Len(o)
  IN [k \in 1..Len(p) |-> <<"go", WS, p[k]>>]

\* The engine after the commands cmds, executed in order.
RECURSIVE Run(_, _)
Run(self, cmds) ==
  IF cmds = <<>> THEN self
  ELSE Run(execute(self, Head(cmds)).self, Tail(cmds))

\* A sequence of commands meant to win from the state self, wherever the
\* player is and whatever was done before.
WinPlan(self) ==
  Route(self.current_room, "engine_room")
  \o << <<"take", WS, "flashlight">>, <<"use", WS, "flashlight">>,
        <<"take", WS, "keycard">> >>
  \o Route("engine_room", "bridge")
  \o << <<"use", WS, "keycard">> >>

\* C27: from every reachable engine state every room is reached again by
\* `go` commands and a won state is reached by some commands: no state is a
\* dead end; and once won the engine stays won.
C27_BacktrackingAndNoDeadEnds ==
  /\ [](\A r \in DOMAIN ROOMS :
          Run(Self, Route(current_room, r)).current_room = r)
  /\ [](is_won(Run(Self, WinPlan(Self))))
  /\ [][is_won(Self) => is_won(Self')]_vars

\* Back in the airlock with the keycard held and the console not yet
\* activated: the bridge and the win are still ahead.
C27_Witness ==
  /\ current_room = "airlock"
  /\ "keycard" \in inventory
  /\ ~is_won(Self)
  /\ VerbOf(command) = "go"

\* C28: the inventory is taken_items in every reachable state: what was
\* taken is still held, also after it was used.
C28_InventoryIsTakenItems ==
  inventory = taken_items

\* The keycard is still held after it activated the console, and the
\* flashlight after it lit the engine room.
C28_Witness ==
  /\ flags["console_activated"]
  /\ flags["engine_room_lit"]
  /\ {"keycard", "flashlight"} \subseteq inventory

\* C29: puzzle progress is ordered: a lit engine room implies the flashlight
\* is held, a held keycard implies the engine room is lit, an activated
\* console implies the keycard is held; and a won engine has executed at
\* least 8 recognized commands.
C29_PuzzleProgressIsOrdered ==
  /\ flags["engine_room_lit"] => "flashlight" \in inventory
  /\ "keycard" \in inventory => flags["engine_room_lit"]
  /\ flags["console_activated"] => "keycard" \in inventory
  /\ is_won(Self) => (recognized >= 8 /\ moves >= 8)

\* Won by exactly 8 recognized commands.
C29_Witness ==
  /\ is_won(Self)
  /\ recognized = 8
  /\ moves = 8

\* The tool names McpRunner.execute_tool knows.
KnownTools == {"look", "go", "take", "use", "read", "inventory"}

\* The number of entries of log that are invocations of a known tool which
\* execute_tool carried out (an invocation whose arguments are no object
\* is carried out only by the tools that take no argument).
KnownExecuted(log) ==
  Cardinality({ k \in 1..Len(log) :
                  /\ log[k].tool \in KnownTools
                  /\ log[k].args.isdict \/ log[k].tool \in {"look", "inventory"} })

\* C30: in the tool-call modality the move counter is 1 when the loop
\* starts and every turn adds the number of its executed invocations that
\* name a known tool, unknown names adding nothing; so the counter is always
\* 1 plus the known invocations executed so far, and that is the number the
\* victory narrative reports.
C30_MovesAreOnePlusKnownInvocations ==
  /\ []((mode = "mcp" /\ provider_calls = 0) => moves = 1)
  /\ [][ mode = "mcp" =>
           /\ moves' = moves + (IF ProviderReturned
                                THEN KnownExecuted(tool_calls_log') ELSE 0)
           /\ (won' /\ ~won) => result' = VictoryText(moves') ]_evars

\* Won after an invocation of an unknown tool: more invocations were logged
\* than moves were added.
C30_Witness ==
  /\ mode = "mcp"
  /\ won
  /\ n_logged > moves - 1
  /\ result = VictoryText(moves)

====
